---- MODULE Spec2Model ----
(***************************************************************************)
(* Email ingestion / response / send workflow of the server: syncEmails,    *)
(* fetchEmails, determineIfNeedsResponse, generateEmailResponse and         *)
(* sendEmail (src/unnamed/part_004), the /api/email routes that call them   *)
(* (src/server/routes.ts) and the DatabaseStorage they run on               *)
(* (src/server/openai.ts, with the constraints of src/shared/schema.ts).    *)
(*                                                                          *)
(* Time is counted in days: IMAP SINCE compares dates, and the three-day    *)
(* window of a first sync is a number of days.                              *)
(***************************************************************************)
EXTENDS Integers, Sequences, FiniteSets

\* ------------------------------------------------------------------ bounds
MaxDay == 2          \* the clock runs over days 1..MaxDay
MaxMail == 2         \* messages delivered to all mailboxes together
MaxEmails == 2       \* rows of the emails table
MaxResponses == 2    \* rows of the email_responses table
MaxSends == 1        \* POST /api/email/response/:id/send requests made
NumMids == 1         \* distinct Message-Id header values

\* ------------------------------------------------------- program constants
ThreeDays == 3               \* 3 * 24 * 60 * 60 * 1000 ms, in days
ConfidenceThreshold == 7     \* 0.7, in tenths

Users == {1, 2}
Requests == {1, 2}           \* the POST /api/email/sync requests, in order of arrival
NoDate == 0                  \* a null timestamp column
NoId == 0                    \* no row
Drafts == {"draft-a"}        \* draft texts the completion endpoint answers with
EditedBodies == {"", "edit-b"}   \* editedResponse of a send request; "" is falsy

\* A message as delivered: the Message-Id header (0: the header is missing) and
\* whether From, To and the text body are non-empty. In an INBOX it also has
\* its internal date.
MailShapes ==
    { [messageId |-> m, from |-> 1, to |-> 1, text |-> 1] : m \in 0..NumMids }
    \cup { [messageId |-> 1, from |-> 1, to |-> 1, text |-> 0] }

\* The id `${Date.now()}-${Math.random()}` synthesized for a message without a
\* Message-Id header is a string that equals no header value and no other
\* synthesized id. A fetched record holds it as Synthesized; the row that
\* stores it holds it under the row's own number, negated.
Synthesized == -(MaxEmails + 1)
SynthesizedFor(rowId) == -rowId

\* What the completion endpoint answers to the draft prompt.
Completions ==
    { [ok |-> FALSE, draftResponse |-> ""] }
    \cup { [ok |-> TRUE, draftResponse |-> d] : d \in Drafts }

\* What the completion endpoint answers to the classification prompt; ok is
\* FALSE when the call or the parsing of its answer raises.
LLMAnswers ==
    { [ok |-> FALSE, needsResponse |-> FALSE, confidence |-> 0] }
    \cup { [ok |-> TRUE, needsResponse |-> n, confidence |-> c] :
             n \in BOOLEAN, c \in {ConfidenceThreshold, ConfidenceThreshold + 1} }

VARIABLES
    now,             \* the current day
    mailbox,         \* user -> sequence of unseen messages of the user's INBOX
    emailSettings,   \* the email_settings table: a set of rows
    emails,          \* the emails table: row id = index
    emailResponses,  \* the email_responses table: row id = index
    sync,            \* request -> the syncEmails call it runs
    outbox,          \* messages the SMTP transport accepted
    sendResult,      \* the answers to the send requests: HTTP status and message
    contexts,        \* the contexts table: row id = index
    tasks,           \* the tasks table: row id = index
    conversations,   \* the conversations table: row id = index
    aiCalls,         \* the calls made to the completion endpoint, with their prompts
    res,             \* the HTTP response to the last request of the routes below
    saving,          \* request -> the POST /api/email/settings handler it runs
    ENCRYPTION_KEY,  \* process.env.ENCRYPTION_KEY or the built-in default
    text,            \* the credential string last given to encrypt
    blob,            \* the stored credentials string
    decrypted        \* what the last decrypt call returned or raised

\* the state of the email workflow
emailVars == <<now, mailbox, emailSettings, emails, emailResponses, sync, outbox, sendResult>>

\* the state of the other routes
contextVars == <<contexts, tasks, conversations, aiCalls, res>>

\* the state of the settings route and of the credential cipher
settingsVars == <<saving, ENCRYPTION_KEY, text, blob, decrypted>>

vars == <<emailVars, contextVars, settingsVars>>

\* ---------------------------------------------------------------- storage

getEmailSettings(userId) ==
    IF \E s \in emailSettings : s.userId = userId
    THEN {CHOOSE s \in emailSettings : s.userId = userId}
    ELSE {}

updateEmailSettings(userId, lastSynced) ==
    { IF s.userId = userId THEN [s EXCEPT !.lastSynced = lastSynced] ELSE s
        : s \in emailSettings }

getEmail(id) == IF id \in 1..Len(emails) THEN {emails[id]} ELSE {}

\* A lookup that finds no row.
getEmailByMessageIdMisses(messageId) == NoId

getEmailByMessageId(messageId) ==
    IF \E i \in 1..Len(emails) : emails[i].messageId = messageId
    THEN CHOOSE i \in 1..Len(emails) : emails[i].messageId = messageId
    ELSE NoId

\* A table without an index on message_id, as the Map of MemStorage is.
noUniqueIndex(messageId) == FALSE

\* emails.message_id is declared unique: an insert of a stored messageId raises.
uniqueViolation(messageId) == \E i \in 1..Len(emails) : emails[i].messageId = messageId

\* The table after db.insert(emailsTable); unchanged when the insert raises.
createEmail(row) ==
    IF uniqueViolation(row.messageId) THEN emails
    ELSE Append(emails,
                IF row.messageId = Synthesized
                THEN [row EXCEPT !.messageId = SynthesizedFor(Len(emails) + 1)]
                ELSE row)

\* An update that does not reach the row.
updateEmailLost(id) == emails

updateEmail(id) ==
    IF id \in 1..Len(emails)
    THEN [emails EXCEPT ![id].responseGenerated = TRUE]
    ELSE emails

getEmailResponse(id) ==
    IF id \in 1..Len(emailResponses) THEN {emailResponses[id]} ELSE {}

\* An insert that stores nothing.
createEmailResponseDropped(emailId, userId, draft) == emailResponses

createEmailResponse(emailId, userId, draft) ==
    Append(emailResponses,
           [emailId |-> emailId, userId |-> userId, draftResponse |-> draft,
            status |-> "draft", sentAt |-> NoDate])

\* ------------------------------------------------------------- fetchEmails

RECURSIVE SelectSeq2(_, _, _)
\* the subsequence of s at the positions in keep, in order
SelectSeq2(s, keep, i) ==
    IF i > Len(s) THEN <<>>
    ELSE (IF i \in keep THEN <<s[i]>> ELSE <<>>) \o SelectSeq2(s, keep, i + 1)

\* imap.search(['UNSEEN', ['SINCE', since]])
searchResults(box, since) == { i \in 1..Len(box) : box[i].date >= since }

\* The record the two parser callbacks of a message build (lines 197-213).
parseMessage(m) ==
    [messageId |-> IF m.messageId # 0 THEN m.messageId ELSE Synthesized,
     from |-> m.from, to |-> m.to, text |-> m.text]

\* msg.once('end'): the record is kept when all four fields are truthy
isComplete(e) == e.messageId # 0 /\ e.from # 0 /\ e.to # 0 /\ e.text # 0

\* inTime: the matched messages whose two parser callbacks ran before the
\* message's 'end' event; a record whose fields are not yet assigned is dropped.
fetchEmails(box, since, inTime) ==
    LET matched == SelectSeq2(box, searchResults(box, since) \cap inTime, 1)
        parsed == [k \in 1..Len(matched) |-> parseMessage(matched[k])]
    IN SelectSeq(parsed, isComplete)

\* ------------------------------------------------ determineIfNeedsResponse
\* A rule that takes a confidence of 0.7 as enough.
determineIfNeedsResponseAtLeast(answer) ==
    IF ~answer.ok THEN FALSE
    ELSE answer.needsResponse /\ answer.confidence >= ConfidenceThreshold

determineIfNeedsResponse(answer) ==
    IF ~answer.ok THEN FALSE
    ELSE answer.needsResponse /\ answer.confidence > ConfidenceThreshold

\* --------------------------------------------------- generateEmailResponse
\* [ok, emails, emailResponses]: the returned boolean and the two tables after
\* the call. Nothing is written unless the email exists and the completion
\* call and the parsing of its answer succeed.
\* A call that marks the email before the completion is asked for.
generateEmailResponseMarksFirst(userId, emailId, completion) ==
    IF getEmail(emailId) = {}
    THEN [ok |-> FALSE, emails |-> emails, emailResponses |-> emailResponses]
    ELSE IF ~completion.ok
    THEN [ok |-> FALSE, emails |-> updateEmail(emailId), emailResponses |-> emailResponses]
    ELSE [ok |-> TRUE,
          emailResponses |-> createEmailResponse(emailId, userId, completion.draftResponse),
          emails |-> updateEmail(emailId)]

generateEmailResponse(userId, emailId, completion) ==
    IF getEmail(emailId) = {} \/ ~completion.ok
    THEN [ok |-> FALSE, emails |-> emails, emailResponses |-> emailResponses]
    ELSE [ok |-> TRUE,
          emailResponses |-> createEmailResponse(emailId, userId, completion.draftResponse),
          emails |-> updateEmail(emailId)]

\* ---------------------------------------------------------------- sendEmail
\* [success, error, outbox, emailResponses]: the returned object, what SMTP
\* accepted and the table after the call.
\* The edited body taken as it is, empty or not.
messageContentEdited(editedResponse, draftResponse) == editedResponse

\* line 422: editedResponse || emailResponse.draftResponse
messageContent(editedResponse, draftResponse) ==
    IF editedResponse # "" THEN editedResponse ELSE draftResponse

\* A send that marks the response as sent before it transmits.
sendEmailMarksFirst(userId, responseId, editedResponse, smtpOk) ==
    IF getEmailResponse(responseId) = {}
          \/ getEmail(emailResponses[responseId].emailId) = {}
          \/ getEmailSettings(userId) = {}
    THEN [success |-> FALSE, error |-> "not found", outbox |-> outbox,
          emailResponses |-> emailResponses]
    ELSE LET content == messageContent(editedResponse, emailResponses[responseId].draftResponse)
             marked == [emailResponses EXCEPT ![responseId] =
                           [@ EXCEPT !.status = "sent", !.sentAt = now,
                                     !.draftResponse = content]]
         IN IF ~smtpOk
            THEN [success |-> FALSE, error |-> "sendMail failed", outbox |-> outbox,
                  emailResponses |-> marked]
            ELSE [success |-> TRUE, error |-> "",
                  outbox |-> Append(outbox, [responseId |-> responseId, from |-> userId,
                                             text |-> content]),
                  emailResponses |-> marked]

sendEmail(userId, responseId, editedResponse, smtpOk) ==
    LET failed(error) == [success |-> FALSE, error |-> error, outbox |-> outbox,
                          emailResponses |-> emailResponses]
    IN IF getEmailResponse(responseId) = {} THEN failed("Email response not found")
       ELSE LET emailResponse == emailResponses[responseId]
            IN IF getEmail(emailResponse.emailId) = {} THEN failed("Original email not found")
               ELSE IF getEmailSettings(userId) = {} THEN failed("Email settings not found")
               ELSE LET settings == CHOOSE x \in getEmailSettings(userId) : TRUE
                        content == messageContent(editedResponse,
                                                  emailResponse.draftResponse)
                    IN IF ~smtpOk THEN failed("sendMail failed")
                       ELSE [success |-> TRUE, error |-> "",
                             outbox |-> Append(outbox,
                                 [responseId |-> responseId, from |-> settings.userId,
                                  text |-> content]),
                             emailResponses |-> [emailResponses EXCEPT ![responseId] =
                                 [@ EXCEPT !.status = "sent", !.sentAt = now,
                                           !.draftResponse = content]]]

\* ------------------------------------------------------------- syncEmails

\* A request before syncEmails is called. The loop is at record i of fetched.
Idle == [pc |-> "idle", userId |-> 0, lastSynced |-> NoDate,
         fetched |-> <<>>, i |-> 1, newEmailCount |-> 0, savedId |-> NoId, imap |-> "none",
         result |-> [success |-> FALSE, count |-> 0, error |-> ""]]

\* A return that reports the rows counted so far, also on failure.
ReturnCounted(s, success, count, error) ==
    [s EXCEPT !.pc = "done", !.lastSynced = NoDate, !.fetched = <<>>, !.i = 1,
              !.newEmailCount = 0, !.savedId = NoId,
              !.result = [success |-> success, count |-> s.newEmailCount, error |-> error]]

Return(s, success, count, error) ==
    [s EXCEPT !.pc = "done", !.lastSynced = NoDate, !.fetched = <<>>, !.i = 1,
              !.newEmailCount = 0, !.savedId = NoId,
              !.result = [success |-> success, count |-> count, error |-> error]]

\* after one record of the loop: the next record, or the end of the loop
NextRecord(s, count) ==
    [s EXCEPT !.i = s.i + 1, !.newEmailCount = count, !.savedId = NoId,
              !.pc = IF s.i < Len(s.fetched) THEN "check" ELSE "update"]

\* no request answered yet
NoResponse == [route |-> "", status |-> 0, returned |-> FALSE]

\* aes-256-cbc takes a key of 32 bytes; the built-in default key
\* 'default-encryption-key-for-development-only' has 43
KeyLength == 32
DefaultKeyLength == 43
DefaultKey == [length |-> DefaultKeyLength, k |-> 0]
Keys == {DefaultKey} \cup { [length |-> KeyLength, k |-> k] : k \in 1..2 }

\* no blob stored, nothing decrypted
NoBlob == [iv |-> <<>>, encrypted |-> <<>>, error |-> ""]
NoResult == [ok |-> FALSE, text |-> <<>>, error |-> ""]

\* a POST /api/email/settings request that has not arrived
NotSaving == [pc |-> "idle", userId |-> 0, existingSettings |-> {}, credentials |-> NoBlob]

\* The other routes before any request, with an encryption key configured.
InitOther ==
    /\ contexts = <<>>
    /\ tasks = <<>>
    /\ conversations = <<>>
    /\ aiCalls = <<>>
    /\ res = NoResponse
    /\ saving = [r \in Requests |-> NotSaving]
    /\ ENCRYPTION_KEY = [length |-> KeyLength, k |-> 1]
    /\ text = <<>>
    /\ blob = NoBlob
    /\ decrypted = NoResult

Init ==
    /\ InitOther
    /\ now = 1
    /\ mailbox = [u \in Users |-> <<>>]
    /\ emailSettings = {}
    /\ emails = <<>>
    /\ emailResponses = <<>>
    /\ sync = [r \in Requests |-> Idle]
    /\ outbox = <<>>
    /\ sendResult = <<>>

\* ----------------------------------------------------------- environment

\* A day passes.
Tick ==
    /\ now < MaxDay
    /\ now' = now + 1
    /\ UNCHANGED <<mailbox, emailSettings, emails, emailResponses, sync, outbox, sendResult,
                   contextVars, settingsVars>>

\* The mail server delivers a message to a user's INBOX.
Deliver(u, shape) ==
    /\ Len(mailbox[1]) + Len(mailbox[2]) < MaxMail
    /\ mailbox' = [mailbox EXCEPT ![u] = Append(@,
            [messageId |-> shape.messageId, from |-> shape.from, to |-> shape.to,
             text |-> shape.text, date |-> now])]
    /\ UNCHANGED <<now, emailSettings, emails, emailResponses, sync, outbox, sendResult,
                   contextVars, settingsVars>>

\* ------------------------------------------------- POST /api/email/settings
\* Users are named in the order in which they first save settings. A request
\* that deactivates an account already saved is outside the inputs drawn.
SaveSettings(u, active) ==
    /\ \A v \in Users : v < u => getEmailSettings(v) # {}
    /\ getEmailSettings(u) # {} => active
    /\ emailSettings' =
         IF getEmailSettings(u) # {}
         THEN { IF s.userId = u THEN [s EXCEPT !.active = active] ELSE s : s \in emailSettings }
         ELSE emailSettings \cup {[userId |-> u, active |-> active, lastSynced |-> NoDate]}
    /\ emailSettings' # emailSettings
    /\ UNCHANGED <<now, mailbox, emails, emailResponses, sync, outbox, sendResult,
                   contextVars, settingsVars>>

\* ---------------------------------------------------- POST /api/email/sync

\* A check that does not look at the active flag.
settingsErrorIgnoresActive(found) ==
    IF found = {} THEN "Email settings not found" ELSE ""

\* lines 73-79: "" when the pass may go on, else the error it aborts with
settingsError(found) ==
    IF found = {} THEN "Email settings not found"
    ELSE IF ~(CHOOSE x \in found : TRUE).active THEN "Email integration is not active"
    ELSE ""

\* lines 72-79: load the settings, abort when absent or inactive. Requests are
\* numbered in the order in which they arrive.
SyncBegin(r, u) ==
    /\ sync[r].pc = "idle"
    /\ \A q \in Requests : q < r => sync[q].pc # "idle"
    /\ LET found == getEmailSettings(u)
           s == [sync[r] EXCEPT !.userId = u]
       IN sync' = [sync EXCEPT ![r] =
            IF settingsError(found) # "" THEN Return(s, FALSE, 0, settingsError(found))
            ELSE [s EXCEPT !.pc = "connect",
                           !.lastSynced = (CHOOSE x \in found : TRUE).lastSynced]]
    /\ UNCHANGED <<now, mailbox, emailSettings, emails, emailResponses, outbox, sendResult,
                   contextVars, settingsVars>>

\* A watermark that is always the three-day window.
lastSyncDateWindow(lastSynced) == now - ThreeDays

\* line 85: the watermark, from the settings loaded when the pass began
lastSyncDate(lastSynced) == IF lastSynced # NoDate THEN lastSynced ELSE now - ThreeDays

\* lines 81-86: connect, open INBOX, compute the watermark, fetch
SyncFetch(r, outcome, inTime) ==
    /\ sync[r].pc = "connect"
    /\ LET s == sync[r]
           since == lastSyncDate(s.lastSynced)
           fetchedEmails == fetchEmails(mailbox[s.userId], since, inTime)
       IN sync' = [sync EXCEPT ![r] =
            IF outcome = "connect failed"
            THEN Return(s, FALSE, 0, outcome)
            ELSE IF outcome = "openBox failed"
            THEN Return([s EXCEPT !.imap = "open"], FALSE, 0, outcome)
            ELSE IF outcome = "fetch failed"
            THEN Return([s EXCEPT !.imap = "open"], FALSE, 0, outcome)
            ELSE [s EXCEPT !.imap = "open", !.fetched = fetchedEmails,
                           !.pc = IF fetchedEmails = <<>> THEN "update" ELSE "check"]]
    /\ UNCHANGED <<now, mailbox, emailSettings, emails, emailResponses, outbox, sendResult,
                   contextVars, settingsVars>>

\* lines 92-93: the existence check of one fetched record
SyncCheck(r) ==
    /\ sync[r].pc = "check"
    /\ LET s == sync[r]
           existing == getEmailByMessageId(s.fetched[s.i].messageId)
       IN sync' = [sync EXCEPT ![r] =
            IF existing # NoId THEN NextRecord(s, s.newEmailCount)
            ELSE [s EXCEPT !.pc = "insert"]]
    /\ UNCHANGED <<now, mailbox, emailSettings, emails, emailResponses, outbox, sendResult,
                   contextVars, settingsVars>>

\* A draft for every row saved.
needsDraftAlways(savedEmail) == TRUE

\* line 113: whether a draft is generated for the row just saved
needsDraft(savedEmail) == savedEmail.needsResponse

\* lines 94-117: classify, insert the row, count it unless a draft is due first
SyncInsert(r, answer) ==
    /\ sync[r].pc = "insert"
    /\ LET s == sync[r]
           insertEmail == [userId |-> s.userId, messageId |-> s.fetched[s.i].messageId,
                           needsResponse |-> determineIfNeedsResponse(answer),
                           responseGenerated |-> FALSE]
       IN IF uniqueViolation(insertEmail.messageId)
          THEN /\ emails' = emails
               /\ sync' = [sync EXCEPT ![r] = Return(s, FALSE, 0, "duplicate key")]
          ELSE /\ Len(emails) < MaxEmails
               /\ emails' = createEmail(insertEmail)
               /\ sync' = [sync EXCEPT ![r] =
                     IF needsDraft(insertEmail)
                     THEN [s EXCEPT !.pc = "generate", !.savedId = Len(emails) + 1]
                     ELSE NextRecord(s, s.newEmailCount + 1)]
    /\ UNCHANGED <<now, mailbox, emailSettings, emailResponses, outbox, sendResult,
                   contextVars, settingsVars>>

\* lines 113-117: the draft for the row just saved; its result is not looked at
SyncGenerate(r, completion) ==
    /\ sync[r].pc = "generate"
    /\ completion.ok => Len(emailResponses) < MaxResponses
    /\ LET s == sync[r]
           g == generateEmailResponse(s.userId, s.savedId, completion)
       IN /\ emails' = g.emails
          /\ emailResponses' = g.emailResponses
          /\ sync' = [sync EXCEPT ![r] = NextRecord(s, s.newEmailCount + 1)]
    /\ UNCHANGED <<now, mailbox, emailSettings, outbox, sendResult, contextVars, settingsVars>>

\* lines 121-131: advance lastSynced, close the session, return the count
SyncFinish(r) ==
    /\ sync[r].pc = "update"
    /\ emailSettings' = updateEmailSettings(sync[r].userId, now)
    /\ sync' = [sync EXCEPT ![r] =
          Return([sync[r] EXCEPT !.imap = "closed"], TRUE, sync[r].newEmailCount, "")]
    /\ UNCHANGED <<now, mailbox, emails, emailResponses, outbox, sendResult,
                   contextVars, settingsVars>>

\* ------------------------------------- POST /api/email/:id/generate-response
\* A route that lets every user in.
ownsEmailAny(email, u) == TRUE

\* line 580: the ownership check of the route
ownsEmail(email, u) == email.userId = u

\* A request answered 404, 403 or 500 changes nothing.
GenerateResponse(u, emailId, completion) ==
    /\ completion.ok => Len(emailResponses) < MaxResponses
    /\ LET g == generateEmailResponse(u, emailId, completion)
           allowed == getEmail(emailId) # {} /\ ownsEmail(emails[emailId], u)
       IN /\ allowed /\ g.ok
          /\ emailResponses' = g.emailResponses
          /\ emails' = g.emails
    /\ UNCHANGED <<now, mailbox, emailSettings, sync, outbox, sendResult,
                   contextVars, settingsVars>>

\* ------------------------------------- POST /api/email/response/:id/send
ownsResponseAny(response, u) == TRUE

\* line 645: the ownership check of the route
ownsResponse(response, u) == response.userId = u

SendResponse(u, responseId, editedResponse, smtpOk) ==
    /\ Len(sendResult) < MaxSends
    /\ LET found == getEmailResponse(responseId)
           answer(status, message) ==
               Append(sendResult, [status |-> status, message |-> message])
       IN IF found = {}
          THEN /\ sendResult' = answer(404, "Email response not found")
               /\ UNCHANGED <<outbox, emailResponses>>
          ELSE IF ~ownsResponse(emailResponses[responseId], u)
          THEN /\ sendResult' = answer(403, "Forbidden")
               /\ UNCHANGED <<outbox, emailResponses>>
          ELSE LET sent == sendEmail(u, responseId, editedResponse, smtpOk)
               IN /\ sendResult' = IF sent.success THEN answer(200, "")
                                   ELSE answer(400, sent.error)
                  /\ outbox' = sent.outbox
                  /\ emailResponses' = sent.emailResponses
    /\ UNCHANGED <<now, mailbox, emailSettings, emails, sync, contextVars, settingsVars>>

\* the steps of the sync request r
SyncStep(r) ==
    \/ \E u \in Users : SyncBegin(r, u)
    \/ \E outcome \in {"connect failed", "openBox failed", "fetch failed", "ok"},
          inTime \in SUBSET (1..MaxMail) : SyncFetch(r, outcome, inTime)
    \/ SyncCheck(r)
    \/ \E answer \in LLMAnswers : SyncInsert(r, answer)
    \/ \E completion \in Completions : SyncGenerate(r, completion)
    \/ SyncFinish(r)

Environment ==
    \/ Tick
    \/ \E u \in Users, shape \in MailShapes : Deliver(u, shape)
    \/ \E u \in Users, active \in BOOLEAN : SaveSettings(u, active)

\* The API with one sync pass, the other routes and the environment interleaving
\* with its steps.
Next ==
    \/ Environment
    \/ SyncStep(1)
    \/ \E u \in Users, emailId \in 1..MaxEmails, completion \in Completions :
          GenerateResponse(u, emailId, completion)
    \/ \E u \in Users, responseId \in 1..(MaxResponses + 1), editedResponse \in EditedBodies,
          smtpOk \in BOOLEAN : SendResponse(u, responseId, editedResponse, smtpOk)

Spec == Init /\ [][Next]_vars

\* Two sync passes, one after the other or interleaving at their await points.
NextConcurrent ==
    \/ Environment
    \/ \E r \in Requests : SyncStep(r)

SpecConcurrent == Init /\ [][NextConcurrent]_vars

\* ------------------------------------------------- sendEmail on any store
\* IStorage has deleteEmail, deleteEmailSettings and deleteEmailResponse, and no
\* route calls them: rows leave the tables only out of band. The contents below
\* are what is left of a store the routes filled after such removals: settings
\* of any of the users, at most one email, and responses that refer to the
\* email stored (with its owner) or to an email that is gone.
StoredSettings ==
    SUBSET { [userId |-> u, active |-> TRUE, lastSynced |-> NoDate] : u \in Users }

StoredEmails ==
    {<<>>} \cup { <<[userId |-> u, messageId |-> 1, needsResponse |-> TRUE,
                     responseGenerated |-> TRUE]>> : u \in Users }

StoredResponses(table) ==
    LET rows == { [emailId |-> e, userId |-> u, draftResponse |-> d,
                   status |-> "draft", sentAt |-> NoDate] :
                     e \in 1..2, u \in Users, d \in Drafts }
        kept(row) == row.emailId \in 1..Len(table) => table[row.emailId].userId = row.userId
    IN UNION { [1..n -> { row \in rows : kept(row) }] : n \in 0..MaxResponses }

InitSend ==
    /\ InitOther
    /\ now = 1
    /\ mailbox = [u \in Users |-> <<>>]
    /\ emailSettings \in StoredSettings
    /\ emails \in StoredEmails
    /\ emailResponses \in StoredResponses(emails)
    /\ sync = [r \in Requests |-> Idle]
    /\ outbox = <<>>
    /\ sendResult = <<>>

NextSend ==
    \E u \in Users, responseId \in 1..(MaxResponses + 1), editedResponse \in EditedBodies,
       smtpOk \in BOOLEAN : SendResponse(u, responseId, editedResponse, smtpOk)

\* The send route on a store of any contents.
SpecSend == InitSend /\ [][NextSend]_vars

\* The responses of a store in which some were sent on day 1.
SentResponses(table) ==
    LET rows == { [emailId |-> 1, userId |-> u, draftResponse |-> d,
                   status |-> st, sentAt |-> IF st = "sent" THEN 1 ELSE NoDate] :
                     u \in Users, d \in Drafts, st \in {"draft", "sent"} }
        kept(row) == table # <<>> /\ table[1].userId = row.userId
    IN UNION { [1..n -> { row \in rows : kept(row) }] : n \in 0..MaxResponses }

\* Day 2, on a store that holds responses sent the day before.
InitResend ==
    /\ InitOther
    /\ now = 2
    /\ mailbox = [u \in Users |-> <<>>]
    /\ emailSettings \in StoredSettings
    /\ emails \in StoredEmails
    /\ emailResponses \in SentResponses(emails)
    /\ sync = [r \in Requests |-> Idle]
    /\ outbox = <<>>
    /\ sendResult = <<>>

\* The send route on a store with sent responses.
SpecResend == InitResend /\ [][NextSend]_vars

\* ---------------------------------------------- PUT /api/email/response/:id
\* status of the request body; "" when the body has none. The body is not
\* validated: any string is stored.
BodyStatuses == {"", "edited", "sent", "archived"}

\* lines 604-631: the row after updateEmailResponse(responseId, {draftResponse,
\* status}); a field the body does not have is left as it is
updateEmailResponse(id, draftResponse, status) ==
    [emailResponses EXCEPT ![id] =
        [@ EXCEPT !.draftResponse = IF draftResponse # "" THEN draftResponse ELSE @,
                  !.status = IF status # "" THEN status ELSE @]]

\* A request answered 404 or 403 changes nothing.
UpdateResponse(u, responseId, draftResponse, status) ==
    /\ getEmailResponse(responseId) # {}
    /\ ownsResponse(emailResponses[responseId], u)
    /\ emailResponses' = updateEmailResponse(responseId, draftResponse, status)
    /\ emailResponses' # emailResponses
    /\ UNCHANGED <<now, mailbox, emailSettings, emails, sync, outbox, sendResult,
                   contextVars, settingsVars>>

NextRespond ==
    \/ NextSend
    \/ \E u \in Users, responseId \in 1..MaxResponses, draftResponse \in EditedBodies,
          status \in BodyStatuses : UpdateResponse(u, responseId, draftResponse, status)

\* The edit and send routes on stored responses.
SpecRespond == InitSend /\ [][NextRespond]_vars

\* ------------------------------------------- contexts and the other routes
MaxContexts == 2     \* rows of the contexts table
MaxCalls == 1        \* calls of the completion endpoint

\* A deleted row keeps its place, so that ids are not reused.
getContext(id) ==
    IF id \in 1..Len(contexts) /\ ~contexts[id].deleted THEN {contexts[id]} ELSE {}

getContexts(userId) ==
    { id \in 1..Len(contexts) : getContext(id) # {} /\ contexts[id].userId = userId }

getTask(id) == IF id \in 1..Len(tasks) THEN {tasks[id]} ELSE {}

getConversation(id) == IF id \in 1..Len(conversations) THEN {conversations[id]} ELSE {}

\* contexts.filter(context => context.active): the ids of the rows whose
\* content is put into the prompt
activeContexts(userId) == { id \in getContexts(userId) : contexts[id].active }

\* The checks a route makes on the row it read: 404 when there is none, 403
\* when it belongs to another user, 200 when the request goes on.
ownerCheck(found, u) ==
    IF found = {} THEN 404
    ELSE IF (CHOOSE x \in found : TRUE).userId # u THEN 403
    ELSE 200

\* routes.ts 336-339: if (!context || context.userId !== userId) return 404
summarizeCheck(found, u) ==
    IF found = {} \/ (CHOOSE x \in found : TRUE).userId # u THEN 404 ELSE 200

\* The response: the route, the status, and whether the body carries the
\* entity or what was made from it.
Respond(route, status, returned) ==
    [route |-> route, status |-> status, returned |-> returned]

Prompt(fn, u, ids) == [fn |-> fn, userId |-> u, contexts |-> ids]

\* User 1 has an email with a draft response, a task and a conversation.
InitWeb ==
    /\ now = 1
    /\ mailbox = [u \in Users |-> <<>>]
    /\ emailSettings = {}
    /\ emails = <<[userId |-> 1, messageId |-> 1, needsResponse |-> TRUE,
                   responseGenerated |-> TRUE]>>
    /\ emailResponses = <<[emailId |-> 1, userId |-> 1, draftResponse |-> "draft-a",
                           status |-> "draft", sentAt |-> NoDate]>>
    /\ sync = [r \in Requests |-> Idle]
    /\ outbox = <<>>
    /\ sendResult = <<>>
    /\ contexts = <<>>
    /\ tasks = <<[userId |-> 1, status |-> "pending"]>>
    /\ conversations = <<[userId |-> 1]>>
    /\ aiCalls = <<>>
    /\ res = NoResponse
    /\ saving = [r \in Requests |-> NotSaving]
    /\ ENCRYPTION_KEY = [length |-> KeyLength, k |-> 1]
    /\ text = <<>>
    /\ blob = NoBlob
    /\ decrypted = NoResult

\* POST /api/contexts
CreateContext(u, active) ==
    /\ Len(contexts) < MaxContexts
    /\ contexts' = Append(contexts, [userId |-> u, active |-> active, deleted |-> FALSE])
    /\ res' = Respond("POST /api/contexts", 201, TRUE)
    /\ UNCHANGED <<tasks, conversations, aiCalls, emailVars, settingsVars>>

\* The request bodies tried: req.body is passed to the store as it is, so it
\* names any columns.
ContextBodies ==
    { [active |-> b] : b \in BOOLEAN } \cup { [userId |-> v] : v \in Users }

TaskBodies == { [status |-> "completed"] } \cup { [userId |-> v] : v \in Users }

\* db.update(contexts).set(updatedContext).where(eq(contexts.id, id))
updateContext(id, body) ==
    [contexts EXCEPT ![id] =
        [@ EXCEPT !.active = IF "active" \in DOMAIN body THEN body.active ELSE @,
                  !.userId = IF "userId" \in DOMAIN body THEN body.userId ELSE @]]

\* db.update(tasks).set(updatedTask).where(eq(tasks.id, id))
updateTask(id, body) ==
    [tasks EXCEPT ![id] =
        [@ EXCEPT !.status = IF "status" \in DOMAIN body THEN body.status ELSE @,
                  !.userId = IF "userId" \in DOMAIN body THEN body.userId ELSE @]]

\* PUT /api/contexts/:id
PutContext(u, id, body) ==
    LET status == ownerCheck(getContext(id), u)
    IN /\ contexts' = IF status = 200 THEN updateContext(id, body) ELSE contexts
       /\ res' = Respond("PUT /api/contexts/:id", status, status = 200)
       /\ UNCHANGED <<tasks, conversations, aiCalls, emailVars, settingsVars>>

\* DELETE /api/contexts/:id
DeleteContext(u, id) ==
    LET status == ownerCheck(getContext(id), u)
    IN /\ contexts' = IF status = 200 THEN [contexts EXCEPT ![id].deleted = TRUE]
                      ELSE contexts
       /\ res' = Respond("DELETE /api/contexts/:id",
                         IF status = 200 THEN 204 ELSE status, FALSE)
       /\ UNCHANGED <<tasks, conversations, aiCalls, emailVars, settingsVars>>

\* PUT /api/tasks/:id
PutTask(u, id, body) ==
    LET status == ownerCheck(getTask(id), u)
    IN /\ tasks' = IF status = 200 THEN updateTask(id, body) ELSE tasks
       /\ res' = Respond("PUT /api/tasks/:id", status, status = 200)
       /\ UNCHANGED <<contexts, conversations, aiCalls, emailVars, settingsVars>>

\* GET /api/conversations/:id/messages
GetMessages(u, id) ==
    LET status == ownerCheck(getConversation(id), u)
    IN /\ res' = Respond("GET /api/conversations/:id/messages", status, status = 200)
       /\ UNCHANGED <<contexts, tasks, conversations, aiCalls, emailVars, settingsVars>>

\* POST /api/conversations/:id/messages
PostMessage(u, id) ==
    LET status == ownerCheck(getConversation(id), u)
    IN IF status # 200
       THEN /\ res' = Respond("POST /api/conversations/:id/messages", status, FALSE)
            /\ UNCHANGED <<contexts, tasks, conversations, aiCalls, emailVars, settingsVars>>
       ELSE /\ Len(aiCalls) < MaxCalls
            /\ aiCalls' = Append(aiCalls, Prompt("generateSolution", u, activeContexts(u)))
            /\ res' = Respond("POST /api/conversations/:id/messages", 201, TRUE)
            /\ UNCHANGED <<contexts, tasks, conversations, emailVars, settingsVars>>

\* POST /api/ai/draft-email
DraftEmail(u) ==
    /\ Len(aiCalls) < MaxCalls
    /\ aiCalls' = Append(aiCalls, Prompt("generateEmailDraft", u, activeContexts(u)))
    /\ tasks' = Append(tasks, [userId |-> u, status |-> "completed"])
    /\ res' = Respond("POST /api/ai/draft-email", 200, TRUE)
    /\ UNCHANGED <<contexts, conversations, emailVars, settingsVars>>

\* POST /api/ai/summarize. contextId NoId is a body without contextId; the
\* content of a stored context is not empty.
Summarize(u, contextId, hasText) ==
    LET status == IF contextId # NoId THEN summarizeCheck(getContext(contextId), u)
                  ELSE IF ~hasText THEN 400
                  ELSE 200
    IN IF status # 200
       THEN /\ res' = Respond("POST /api/ai/summarize", status, FALSE)
            /\ UNCHANGED <<contexts, tasks, conversations, aiCalls, emailVars, settingsVars>>
       ELSE /\ Len(aiCalls) < MaxCalls
            /\ aiCalls' = Append(aiCalls, Prompt("summarizeDocument", u,
                                 IF contextId # NoId THEN {contextId} ELSE {}))
            /\ res' = Respond("POST /api/ai/summarize", 200, TRUE)
            /\ UNCHANGED <<contexts, tasks, conversations, emailVars, settingsVars>>

\* GET /api/email/:id and GET /api/email/:id/responses
GetEmail(route, u, id) ==
    LET status == ownerCheck(getEmail(id), u)
    IN /\ res' = Respond(route, status, status = 200)
       /\ UNCHANGED <<contexts, tasks, conversations, aiCalls, emailVars, settingsVars>>

\* POST /api/email/:id/generate-response, with the prompt generateEmailResponse
\* assembles
PostGenerateResponse(u, emailId, completion) ==
    LET status == ownerCheck(getEmail(emailId), u)
        g == generateEmailResponse(u, emailId, completion)
    IN IF status # 200
       THEN /\ res' = Respond("POST /api/email/:id/generate-response", status, FALSE)
            /\ UNCHANGED <<contexts, tasks, conversations, aiCalls, emailVars, settingsVars>>
       ELSE /\ Len(aiCalls) < MaxCalls
            /\ completion.ok => Len(emailResponses) < MaxResponses
            /\ aiCalls' = Append(aiCalls, Prompt("generateEmailResponse", u, activeContexts(u)))
            /\ emailResponses' = g.emailResponses
            /\ emails' = g.emails
            /\ res' = Respond("POST /api/email/:id/generate-response",
                              IF g.ok THEN 200 ELSE 500, g.ok)
            /\ UNCHANGED <<now, mailbox, emailSettings, sync, outbox, sendResult,
                           contexts, tasks, conversations, settingsVars>>

\* PUT /api/email/response/:id
PutResponse(u, responseId, draftResponse, status) ==
    LET checked == ownerCheck(getEmailResponse(responseId), u)
    IN /\ emailResponses' = IF checked = 200
                            THEN updateEmailResponse(responseId, draftResponse, status)
                            ELSE emailResponses
       /\ res' = Respond("PUT /api/email/response/:id", checked, checked = 200)
       /\ UNCHANGED <<now, mailbox, emailSettings, emails, sync, outbox, sendResult,
                      contexts, tasks, conversations, aiCalls, settingsVars>>

Ids == 1..MaxContexts

\* The routes on the rows and their owners as they were stored: the bodies of
\* the two PUT requests set active and status here, and any column in
\* NextOwner below.
NextWeb ==
    \/ \E u \in Users, active \in BOOLEAN : CreateContext(u, active)
    \/ \E u \in Users, id \in Ids, body \in { b \in ContextBodies : DOMAIN b = {"active"} } :
          PutContext(u, id, body)
    \/ \E u \in Users, id \in Ids : DeleteContext(u, id)
    \/ \E u \in Users, id \in Ids, body \in { b \in TaskBodies : DOMAIN b = {"status"} } :
          PutTask(u, id, body)
    \/ \E u \in Users, id \in Ids : GetMessages(u, id)
    \/ \E u \in Users, id \in Ids : PostMessage(u, id)
    \/ \E u \in Users : DraftEmail(u)
    \/ \E u \in Users, contextId \in {NoId} \cup Ids, hasText \in BOOLEAN :
          Summarize(u, contextId, hasText)
    \/ \E u \in Users, id \in Ids,
          route \in {"GET /api/email/:id", "GET /api/email/:id/responses"} :
          GetEmail(route, u, id)
    \/ \E u \in Users, id \in Ids, completion \in Completions :
          PostGenerateResponse(u, id, completion)
    \/ \E u \in Users, id \in Ids : PutResponse(u, id, "", "edited")

SpecWeb == InitWeb /\ [][NextWeb]_vars

\* The routes that write contexts and tasks, with every body.
NextOwner ==
    \/ \E u \in Users, active \in BOOLEAN : CreateContext(u, active)
    \/ \E u \in Users, id \in Ids, body \in ContextBodies : PutContext(u, id, body)
    \/ \E u \in Users, id \in Ids : DeleteContext(u, id)
    \/ \E u \in Users, id \in Ids, body \in TaskBodies : PutTask(u, id, body)

SpecOwner == InitWeb /\ [][NextOwner]_vars

\* A sync pass, a later one that begins when the first has returned, and the
\* generate-response requests of the inbox view, all within one day.
NextHeal ==
    \/ \E u \in Users, shape \in MailShapes : Deliver(u, shape)
    \/ \E u \in Users, active \in BOOLEAN : SaveSettings(u, active)
    \/ SyncStep(1)
    \/ sync[1].pc = "done" /\ SyncStep(2)
    \/ \E u \in Users, emailId \in 1..MaxEmails, completion \in Completions :
          PostGenerateResponse(u, emailId, completion)

SpecHeal == Init /\ [][NextHeal]_vars

\* ------------------------------------------------------ encrypt and decrypt
\* aes-256-cbc scaled down: a byte has two bits, a block BlockLen bytes, and
\* the block cipher is a permutation of the blocks chosen by the key.
BlockLen == 2        \* bytes of a block and of the IV
MaxLen == 2          \* bytes of a credential string

Bytes == 0..3
Modulus == 4 ^ BlockLen

\* the characters of the credential strings tried
Chars == 1..2
Texts == UNION { [1..n -> Chars] : n \in 0..MaxLen }
IVs == [1..BlockLen -> Bytes]

XorByte(a, b) ==
    (((a % 2) + (b % 2)) % 2) + 2 * (((a \div 2) + (b \div 2)) % 2)

XorBlock(x, y) == [i \in 1..BlockLen |-> XorByte(x[i], y[i])]

toNum(block) ==
    LET f[i \in 0..BlockLen] == IF i = 0 THEN 0 ELSE 4 * f[i - 1] + block[i]
    IN f[BlockLen]

fromNum(n) == [i \in 1..BlockLen |-> (n \div (4 ^ (BlockLen - i))) % 4]

\* the block cipher under key k, and its inverse
EncryptBlock(k, block) == fromNum((5 * toNum(block) + 3 * k + 1) % Modulus)

DecryptBlock(k, block) == CHOOSE b \in IVs : EncryptBlock(k, b) = block

\* PKCS#7: cipher.final() adds p bytes of value p, 1 <= p <= BlockLen
Pad(t) ==
    LET p == BlockLen - (Len(t) % BlockLen)
    IN t \o [i \in 1..p |-> p]

\* decipher.final() checks the padding and throws 'bad decrypt'
ValidPadding(t) ==
    /\ Len(t) > 0
    /\ t[Len(t)] \in 1..BlockLen
    /\ \A i \in (Len(t) - t[Len(t)] + 1)..Len(t) : t[i] = t[Len(t)]

Unpad(t) == SubSeq(t, 1, Len(t) - t[Len(t)])

BlocksOf(t) ==
    [j \in 1..(Len(t) \div BlockLen) |->
        [i \in 1..BlockLen |-> t[(j - 1) * BlockLen + i]]]

Flatten(blocks) ==
    [n \in 1..(Len(blocks) * BlockLen) |->
        blocks[((n - 1) \div BlockLen) + 1][((n - 1) % BlockLen) + 1]]

\* createCipheriv / createDecipheriv throw unless the key has KeyLength bytes
ValidKey == ENCRYPTION_KEY.length = KeyLength

\* encrypt(text) with the IV that randomBytes returned: CBC chains each
\* block with the one before it, the first with the IV
encrypt(x, iv) ==
    IF ~ValidKey THEN [iv |-> <<>>, encrypted |-> <<>>, error |-> "Invalid key length"]
    ELSE LET plain == BlocksOf(Pad(x))
             c[j \in 0..Len(plain)] ==
                 IF j = 0 THEN iv
                 ELSE EncryptBlock(ENCRYPTION_KEY.k, XorBlock(plain[j], c[j - 1]))
         IN [iv |-> iv, encrypted |-> [j \in 1..Len(plain) |-> c[j]], error |-> ""]

decrypt(stored) ==
    IF ~ValidKey THEN [ok |-> FALSE, text |-> <<>>, error |-> "Invalid key length"]
    ELSE LET previous(j) == IF j = 1 THEN stored.iv ELSE stored.encrypted[j - 1]
             plain == Flatten([j \in 1..Len(stored.encrypted) |->
                         XorBlock(DecryptBlock(ENCRYPTION_KEY.k, stored.encrypted[j]),
                                  previous(j))])
         IN IF ValidPadding(plain)
            THEN [ok |-> TRUE, text |-> Unpad(plain), error |-> ""]
            ELSE [ok |-> FALSE, text |-> <<>>, error |-> "bad decrypt"]

\* The process starts with the key of its environment, or with the default.
InitCrypt ==
    /\ now = 1
    /\ mailbox = [u \in Users |-> <<>>]
    /\ emailSettings = {}
    /\ emails = <<>>
    /\ emailResponses = <<>>
    /\ sync = [r \in Requests |-> Idle]
    /\ outbox = <<>>
    /\ sendResult = <<>>
    /\ contexts = <<>>
    /\ tasks = <<>>
    /\ conversations = <<>>
    /\ aiCalls = <<>>
    /\ res = NoResponse
    /\ saving = [r \in Requests |-> NotSaving]
    /\ ENCRYPTION_KEY \in Keys
    /\ text = <<>>
    /\ blob = NoBlob
    /\ decrypted = NoResult

\* encrypt(JSON.stringify(credentials)); the blob is what is stored
Encrypt(x, iv) ==
    /\ text' = x
    /\ blob' = encrypt(x, iv)
    /\ decrypted' = NoResult
    /\ UNCHANGED <<ENCRYPTION_KEY, saving, emailVars, contextVars>>

\* decrypt(emailSettings.credentials)
Decrypt ==
    /\ blob.encrypted # <<>>
    /\ decrypted' = decrypt(blob)
    /\ UNCHANGED <<ENCRYPTION_KEY, text, blob, saving, emailVars, contextVars>>

\* The process is started again with another ENCRYPTION_KEY; the stored blob
\* stays.
Restart(key) ==
    /\ key # ENCRYPTION_KEY
    /\ ENCRYPTION_KEY' = key
    /\ decrypted' = NoResult
    /\ UNCHANGED <<text, blob, saving, emailVars, contextVars>>

\* The IV segment of the stored blob is replaced by another of its length.
Tamper(iv) ==
    /\ blob.encrypted # <<>>
    /\ iv # blob.iv
    /\ blob' = [blob EXCEPT !.iv = iv]
    /\ decrypted' = NoResult
    /\ UNCHANGED <<ENCRYPTION_KEY, text, saving, emailVars, contextVars>>

NextCrypt ==
    \/ \E x \in Texts, iv \in IVs : Encrypt(x, iv)
    \/ Decrypt
    \/ \E key \in Keys : Restart(key)
    \/ \E iv \in IVs : Tamper(iv)

SpecCrypt == InitCrypt /\ [][NextCrypt]_vars

\* ------------------------------------------------- /api/email/settings
\* The credentials and the IVs tried.
Passwords == {<<1>>}
SomeIVs == { [i \in 1..BlockLen |-> b] : b \in 0..1 }

\* Without the unique index on user_id an insert never fails.
noUniqueUserId(userId) == FALSE

\* email_settings.user_id is unique: an insert for a user who has a row raises
userIdTaken(userId) == \E s \in emailSettings : s.userId = userId

createEmailSettings(userId, credentials) ==
    emailSettings \cup {[id |-> Cardinality(emailSettings) + 1, userId |-> userId,
                         active |-> TRUE, lastSynced |-> NoDate,
                         credentials |-> credentials]}

\* updateEmailSettings(userId, {..., credentials, active})
updateCredentials(userId, credentials) ==
    { IF s.userId = userId THEN [s EXCEPT !.credentials = credentials, !.active = TRUE]
      ELSE s : s \in emailSettings }

\* Boolean(credentials): false for the empty string only
Truthy(credentials) == credentials # NoBlob

\* The row with every column in the body.
wholeSettings(settings) ==
    [f \in DOMAIN settings \cup {"hasCredentials"} |->
        IF f = "hasCredentials" THEN Truthy(settings.credentials) ELSE settings[f]]

\* const { credentials, ...safeSettings } = settings;
\* res.json({ ...safeSettings, hasCredentials: Boolean(credentials) })
safeSettings(settings) ==
    [f \in (DOMAIN settings \ {"credentials"}) \cup {"hasCredentials"} |->
        IF f = "hasCredentials" THEN Truthy(settings.credentials) ELSE settings[f]]

RespondWith(route, status, returned, body) ==
    [route |-> route, status |-> status, returned |-> returned, body |-> body]

\* GET /api/email/settings
GetSettings(u) ==
    /\ res' = IF getEmailSettings(u) # {}
              THEN RespondWith("GET /api/email/settings", 200, TRUE,
                               safeSettings(CHOOSE s \in getEmailSettings(u) : TRUE))
              ELSE RespondWith("GET /api/email/settings", 200, FALSE, <<>>)
    /\ UNCHANGED <<tasks, contexts, conversations, aiCalls, emailVars, settingsVars>>

\* POST /api/email/settings up to the answer of getEmailSettings: the body is
\* validated, the credentials are encrypted, the row of the user is read.
PostSettings(r, u, password, iv) ==
    /\ saving[r].pc = "idle"
    /\ text' = password
    /\ blob' = encrypt(password, iv)
    /\ decrypted' = NoResult
    /\ IF blob'.error # ""
       THEN /\ res' = RespondWith("POST /api/email/settings", 500, FALSE, <<>>)
            /\ UNCHANGED saving
       ELSE /\ saving' = [saving EXCEPT ![r] =
                            [pc |-> "write", userId |-> u,
                             existingSettings |-> getEmailSettings(u),
                             credentials |-> blob']]
            /\ UNCHANGED res
    /\ UNCHANGED <<ENCRYPTION_KEY, tasks, contexts, conversations, aiCalls, emailVars>>

\* The rest of POST /api/email/settings: the update or the insert, and the
\* response.
WriteSettings(r) ==
    LET q == saving[r]
        route == "POST /api/email/settings"
    IN /\ q.pc = "write"
       /\ saving' = [saving EXCEPT ![r] = NotSaving]
       /\ IF q.existingSettings # {}
          THEN /\ emailSettings' = updateCredentials(q.userId, q.credentials)
               /\ res' = IF getEmailSettings(q.userId) = {}
                         THEN RespondWith(route, 404, FALSE, <<>>)
                         ELSE RespondWith(route, 200, TRUE,
                                  safeSettings(CHOOSE s \in emailSettings' :
                                                   s.userId = q.userId))
          ELSE IF userIdTaken(q.userId)
          THEN /\ res' = RespondWith(route, 500, FALSE, <<>>)
               /\ UNCHANGED emailSettings
          ELSE /\ emailSettings' = createEmailSettings(q.userId, q.credentials)
               /\ res' = RespondWith(route, 201, TRUE,
                             safeSettings(CHOOSE s \in emailSettings' :
                                              s.userId = q.userId))
       /\ UNCHANGED <<now, mailbox, emails, emailResponses, sync, outbox, sendResult,
                      ENCRYPTION_KEY, text, blob, decrypted,
                      tasks, contexts, conversations, aiCalls>>

NextSettings ==
    \/ \E u \in Users : GetSettings(u)
    \/ \E r \in Requests, u \in Users, password \in Passwords, iv \in SomeIVs :
          PostSettings(r, u, password, iv)
    \/ \E r \in Requests : WriteSettings(r)

SpecSettings == Init /\ [][NextSettings]_vars

\* ------------------------------------------------------------- properties

\* lastSynced of the user's row in a settings table; NoDate without a row
lastSyncedOf(table, u) ==
    IF \E x \in table : x.userId = u
    THEN (CHOOSE x \in table : x.userId = u).lastSynced
    ELSE NoDate

\* a pass whose connect, open and fetch succeeded and that has not returned
InLoop(pc) == pc \in {"check", "insert", "generate", "update"}

IsStored(messageId) == \E k \in 1..Len(emails) : emails[k].messageId = messageId

\* C1, as stated: every step that ends a sync pass whose settings are active and
\* whose connect and fetch succeeded leaves the user's lastSynced at the current
\* time, whatever happened to the fetched messages.
C1_AlwaysAdvances ==
    [][\A r \in Requests :
          (InLoop(sync[r].pc) /\ sync'[r].pc = "done")
              => lastSyncedOf(emailSettings', sync[r].userId) = now]_vars

\* the step in which the pass r fails after its settings were loaded
Fails(r) ==
    /\ sync[r].pc \in {"connect", "check", "insert", "generate", "update"}
    /\ sync'[r].pc = "done"
    /\ ~sync'[r].result.success

\* the pass r has failed after its settings were loaded
Failed(r) ==
    /\ sync[r].pc = "done"
    /\ ~sync[r].result.success
    /\ sync[r].result.error \in {"connect failed", "openBox failed", "fetch failed",
                                 "duplicate key"}

ReturnsError(r) ==
    /\ sync'[r].result.error # ""
    /\ sync'[r].result.count = 0
    /\ emailSettings' = emailSettings

\* C2, as stated: a failing pass returns success=false with an error and leaves
\* lastSynced as it was, and from then on a sync call for the user computes the
\* watermark it would have computed before, as long as the settings are not
\* written.
C2_SameWatermark ==
    [][\A r \in Requests :
          /\ Fails(r) => ReturnsError(r)
          /\ (Failed(r) /\ emailSettings' = emailSettings) =>
                lastSyncDate(lastSyncedOf(emailSettings, sync[r].userId))'
                    = lastSyncDate(lastSyncedOf(emailSettings, sync[r].userId))]_vars

\* C2, amended: a failing pass returns success=false with an error and a count of
\* 0 and writes no settings; it is not run again (a connect step is not followed
\* by another one, a returned pass takes no step); lastSynced is written only by
\* the last step of a succeeding pass; and while lastSynced is set and not
\* written, the watermark a sync call computes does not change with the time.
C2_FailedPass ==
    [][/\ \A r \in Requests :
             /\ Fails(r) => ReturnsError(r)
             /\ (sync[r].pc = "connect" /\ sync'[r] # sync[r]) => sync'[r].pc # "connect"
             /\ sync[r].pc = "done" => sync'[r] = sync[r]
       /\ \A u \in Users :
             /\ lastSyncedOf(emailSettings', u) # lastSyncedOf(emailSettings, u) =>
                   \E r \in Requests : /\ sync[r].pc = "update"
                                       /\ sync[r].userId = u
                                       /\ sync'[r].result.success
             /\ (/\ lastSyncedOf(emailSettings, u) # NoDate
                 /\ lastSyncedOf(emailSettings', u) = lastSyncedOf(emailSettings, u)) =>
                   lastSyncDate(lastSyncedOf(emailSettings, u))'
                       = lastSyncDate(lastSyncedOf(emailSettings, u))]_vars

\* A pass failed for a user who was synced on an earlier day.
C2_Witness ==
    \E r \in Requests :
        /\ Failed(r)
        /\ lastSyncedOf(emailSettings, sync[r].userId) # NoDate
        /\ lastSyncedOf(emailSettings, sync[r].userId) < now

\* C3: no two rows of the emails table have the same messageId, also when two
\* sync passes interleave at their await points.
C3_UniqueMessageId ==
    \A i, j \in 1..Len(emails) : i # j => emails[i].messageId # emails[j].messageId

\* Two passes raced on a message: one stored it, the insert of the other raised.
C3_Witness ==
    \E r, q \in Requests :
        /\ sync[r].result.error = "duplicate key"
        /\ sync[q].pc # "idle" /\ q # r
        /\ sync[q].userId = sync[r].userId
        /\ Len(emails) >= 1

\* what tells two fetched records of the list apart as messages
RecordKey(fetched, k) ==
    IF fetched[k].messageId = Synthesized THEN <<"synthesized", k>>
    ELSE <<"header", fetched[k].messageId>>

\* In a running pass every record the loop is through is stored, and the count
\* is at most the number of distinct messages among them.
C4_StoredOnce ==
    \A r \in Requests :
        InLoop(sync[r].pc) =>
            /\ \A k \in 1..(sync[r].i - 1) :
                   sync[r].fetched[k].messageId # Synthesized
                       => IsStored(sync[r].fetched[k].messageId)
            /\ sync[r].newEmailCount
                   <= Cardinality({ RecordKey(sync[r].fetched, k) : k \in 1..(sync[r].i - 1) })

\* C4: when the fetched list of a pass holds a messageId twice, the row of the
\* first occurrence is stored when the loop reaches the second one, and the step
\* of the loop at a record whose messageId is stored only moves on to the next
\* record: no row is created, no classification and no draft call is made, and
\* the count stays as it is.
C4_SecondOccurrenceSkipped ==
    [][/\ C4_StoredOnce'
       /\ \A r \in Requests :
             (/\ sync[r].pc = "check"
              /\ IsStored(sync[r].fetched[sync[r].i].messageId)
              /\ sync'[r] # sync[r]) =>
                 /\ emails' = emails
                 /\ emailResponses' = emailResponses
                 /\ sync'[r].newEmailCount = sync[r].newEmailCount
                 /\ sync'[r].i = sync[r].i + 1
                 /\ sync'[r].pc \in {"check", "update"}]_vars

\* A pass is through a list that holds one messageId twice: one row, counted once.
C4_Witness ==
    \E r \in Requests :
        /\ sync[r].pc = "update"
        /\ Len(sync[r].fetched) = 2
        /\ sync[r].fetched[1].messageId = sync[r].fetched[2].messageId
        /\ sync[r].newEmailCount = 1
        /\ Len(emails) = 1

\* C5: a step of a sync pass that creates an EmailResponse creates it for an
\* email stored with needsResponse=true, and the needsResponse of a stored row
\* never changes; so a response to an email with needsResponse=false comes from
\* a step that is not a step of a sync pass, the generate-response request.
C5_NoDraftFromSync ==
    [][/\ (Len(emailResponses') > Len(emailResponses) /\ sync' # sync) =>
             emails[emailResponses'[Len(emailResponses')].emailId].needsResponse
       /\ \A k \in 1..Len(emails) :
             emails'[k].needsResponse = emails[k].needsResponse]_vars

\* A finished pass stored an email with needsResponse=false, and the email has a
\* response.
C5_Witness ==
    /\ sync[1].pc = "done" /\ sync[1].result.success
    /\ \E j \in 1..Len(emailResponses) : ~emails[emailResponses[j].emailId].needsResponse

\* sendEmail, for every caller, response and edited body, where it succeeds
C6_SendEmailResult ==
    \A u \in Users, id \in 1..Len(emailResponses), edited \in EditedBodies :
        LET sent == sendEmail(u, id, edited, TRUE)
            body == IF edited = "" THEN emailResponses[id].draftResponse ELSE edited
        IN sent.success =>
             /\ sent.emailResponses[id].status = "sent"
             /\ sent.emailResponses[id].sentAt = now
             /\ sent.emailResponses[id].draftResponse = body
             /\ sent.outbox[Len(sent.outbox)].text = body

\* C6: a successful send sets status to "sent" and sentAt to the current time;
\* draftResponse becomes the edited body when one is supplied and keeps its
\* value otherwise; the text transmitted is the draftResponse stored afterwards;
\* nothing else of the table changes.
C6_SuccessfulSend ==
    /\ []C6_SendEmailResult
    /\ [][Len(outbox') > Len(outbox) =>
             LET m == outbox'[Len(outbox')]
                 old == emailResponses[m.responseId]
                 new == emailResponses'[m.responseId]
             IN /\ new.status = "sent"
                /\ new.sentAt = now
                /\ new.draftResponse = m.text
                /\ new.draftResponse \in {old.draftResponse} \cup (EditedBodies \ {""})
                /\ new.emailId = old.emailId /\ new.userId = old.userId
                /\ Len(emailResponses') = Len(emailResponses)
                /\ \A k \in 1..Len(emailResponses) :
                      k # m.responseId => emailResponses'[k] = emailResponses[k]]_vars

\* A response was sent without an edited body: the draft is transmitted and kept.
C6_Witness ==
    /\ Len(outbox) = 1
    /\ outbox[1].text \in Drafts
    /\ emailResponses[outbox[1].responseId].status = "sent"
    /\ emailResponses[outbox[1].responseId].draftResponse = outbox[1].text
    /\ emailResponses[outbox[1].responseId].sentAt = now

\* sendEmail, for every caller and response, where a row it needs is missing
C7_SendEmailErrors ==
    \A u \in Users, id \in 0..(MaxResponses + 1), edited \in EditedBodies, smtpOk \in BOOLEAN :
        LET sent == sendEmail(u, id, edited, smtpOk)
            noResponse == id \notin 1..Len(emailResponses)
            noEmail == ~noResponse /\ emailResponses[id].emailId \notin 1..Len(emails)
            noSettings == \A x \in emailSettings : x.userId # u
        IN (noResponse \/ noEmail \/ noSettings) =>
             /\ ~sent.success
             /\ sent.outbox = outbox
             /\ sent.emailResponses = emailResponses
             /\ sent.error = IF noResponse THEN "Email response not found"
                             ELSE IF noEmail THEN "Original email not found"
                             ELSE "Email settings not found"

\* C7: sendEmail returns an error, transmits nothing and leaves the responses
\* as they are when the response, its email or the caller's settings are
\* missing; a send request that is not answered 200 transmits and changes
\* nothing; and a message that is transmitted is sent with the settings of the
\* user who owns the response.
C7_SendRequiresRows ==
    /\ []C7_SendEmailErrors
    /\ [][/\ (/\ Len(sendResult') > Len(sendResult)
              /\ sendResult'[Len(sendResult')].status # 200) =>
                 (outbox' = outbox /\ emailResponses' = emailResponses)
          /\ Len(outbox') > Len(outbox) =>
                LET m == outbox'[Len(outbox')]
                IN /\ sendResult'[Len(sendResult')].status = 200
                   /\ m.from = emailResponses[m.responseId].userId
                   /\ \E x \in emailSettings : x.userId = m.from]_vars

\* The owner of a response asked to send it, its email was gone, and sendEmail
\* returned the error: nothing was transmitted, the response is still a draft.
C7_Witness ==
    /\ Len(sendResult) = 1
    /\ sendResult[1].status = 400
    /\ sendResult[1].message = "Original email not found"
    /\ outbox = <<>>
    /\ \A j \in 1..Len(emailResponses) : emailResponses[j].status = "draft"

\* C8: the first step of a sync pass for a user without settings returns
\* "Email settings not found", and for a user whose settings are not active
\* "Email integration is not active"; the step opens no mail session and writes
\* no table, and a pass that has returned takes no further step.
C8_AbortsWithoutSettings ==
    [][\A r \in Requests :
          /\ (sync[r].pc = "idle" /\ sync'[r].pc # "idle") =>
                LET u == sync'[r].userId
                    missing == \A x \in emailSettings : x.userId # u
                    inactive == \E x \in emailSettings : x.userId = u /\ ~x.active
                IN /\ (missing \/ inactive) =>
                        /\ sync'[r].pc = "done"
                        /\ ~sync'[r].result.success
                        /\ sync'[r].result.count = 0
                        /\ sync'[r].result.error =
                              IF missing THEN "Email settings not found"
                              ELSE "Email integration is not active"
                        /\ sync'[r].imap = "none"
                   /\ emails' = emails
                   /\ emailResponses' = emailResponses
                   /\ emailSettings' = emailSettings
          /\ sync[r].pc = "done" => sync'[r] = sync[r]]_vars

\* A sync call for an account that is not active has returned.
C8_Witness ==
    \E r \in Requests :
        /\ sync[r].pc = "done"
        /\ sync[r].result.error = "Email integration is not active"
        /\ sync[r].imap = "none"
        /\ \E x \in emailSettings : x.userId = sync[r].userId /\ ~x.active /\ x.lastSynced = NoDate

\* the responses that refer to the email k
ResponsesTo(k) == { j \in 1..Len(emailResponses) : emailResponses[j].emailId = k }

C10_ResponseRefersToOwnEmail ==
    \A j \in 1..Len(emailResponses) :
        /\ emailResponses[j].emailId \in 1..Len(emails)
        /\ emails[emailResponses[j].emailId].userId = emailResponses[j].userId

\* Two responses: one to an email the pass classified as needing a response,
\* one to an email it did not, which only the request creates.
C10_Witness ==
    \E i, j \in 1..Len(emailResponses) :
        /\ emails[emailResponses[i].emailId].needsResponse
        /\ emails[emailResponses[i].emailId].responseGenerated
        /\ ~emails[emailResponses[j].emailId].needsResponse

\* the answer for which determineIfNeedsResponse is to return true
AnswerSaysRespond(answer) ==
    answer.ok /\ answer.needsResponse /\ answer.confidence > ConfidenceThreshold

\* the step of pass r that classifies with this answer stores a row whose
\* needsResponse is not what the rule gives, or stores none
MisclassifiedInsert(r, answer) ==
    /\ SyncInsert(r, answer)
    /\ \/ Len(emails') = Len(emails)
       \/ emails'[Len(emails')].needsResponse # AnswerSaysRespond(answer)

\* C11: every prompt assembled from stored contexts holds only contexts that
\* are active when it is assembled: a context with active = false
\* contributes to no prompt.
C11_OnlyActiveInPrompts ==
    [][Len(aiCalls') > Len(aiCalls) =>
          \A id \in aiCalls'[Len(aiCalls')].contexts : contexts[id].active]_vars

\* What C13 asks of a request for the row `found` by user u: when there is
\* no row the answer is 404, when the row is another user's it is 403, and
\* in both cases nothing is returned, no table changes, and no completion
\* is asked for and no mail sent.
Denied(found, u, status, returned) ==
    (found = {} \/ (CHOOSE x \in found : TRUE).userId # u) =>
        /\ status = IF found = {} THEN 404 ELSE 403
        /\ ~returned
        /\ UNCHANGED <<contexts, tasks, conversations, emails, emailResponses,
                       aiCalls, outbox>>

\* C13: every route that addresses an entity by id rejects a request for an
\* absent entity as not found and a request for another user's entity as
\* forbidden, returning and changing nothing and making no AI or mail call.
C13_NotFoundOrForbidden ==
    [][\A u \in Users, id \in Ids :
        /\ (\E body \in ContextBodies : PutContext(u, id, body))
              => Denied(getContext(id), u, res'.status, res'.returned)
        /\ DeleteContext(u, id) => Denied(getContext(id), u, res'.status, res'.returned)
        /\ (\E body \in TaskBodies : PutTask(u, id, body))
              => Denied(getTask(id), u, res'.status, res'.returned)
        /\ GetMessages(u, id) => Denied(getConversation(id), u, res'.status, res'.returned)
        /\ PostMessage(u, id) => Denied(getConversation(id), u, res'.status, res'.returned)
        /\ (\E route \in {"GET /api/email/:id", "GET /api/email/:id/responses"} :
               GetEmail(route, u, id))
              => Denied(getEmail(id), u, res'.status, res'.returned)
        /\ (\E completion \in Completions : PostGenerateResponse(u, id, completion))
              => Denied(getEmail(id), u, res'.status, res'.returned)
        /\ PutResponse(u, id, "", "edited")
              => Denied(getEmailResponse(id), u, res'.status, res'.returned)
        /\ (\E hasText \in BOOLEAN : Summarize(u, id, hasText))
              => Denied(getContext(id), u, res'.status, res'.returned)]_vars

\* C16: under the key the process is configured with, the built-in default
\* included, decrypt(encrypt(x)) = x for every credential string x and
\* every IV that encrypt draws.
C16_RoundTrip ==
    \A x \in Texts, iv \in IVs :
        LET stored == encrypt(x, iv)
        IN /\ stored.error = ""
           /\ decrypt(stored) = [ok |-> TRUE, text |-> x, error |-> ""]

\* C17: decrypt returns the plaintext that was encrypted or fails with an
\* error; it never returns another plaintext, whether the key is another
\* than the one used to encrypt or the IV segment was changed.
C17_PlaintextOrError ==
    decrypted # NoResult => (~decrypted.ok \/ decrypted.text = text)

RowsOf(u) == { s \in emailSettings : s.userId = u }

\* C12: in every state each user has at most one EmailSettings row, and a
\* user whose POST /api/email/settings was answered with the stored
\* settings has exactly one, also when two requests of the user both read
\* 'no existing settings' before either created.
C12_OneRowPerUser ==
    /\ \A u \in Users : Cardinality(RowsOf(u)) <= 1
    /\ (res.route = "POST /api/email/settings" /\ res.returned)
          => Cardinality(RowsOf(res.body.userId)) = 1

\* Two requests of user 1 have both read 'no existing settings'; one has
\* created the row and the other is about to.
C12_Witness ==
    \E r \in Requests :
        /\ saving[r].pc = "write"
        /\ saving[r].existingSettings = {}
        /\ RowsOf(saving[r].userId) # {}

\* C14: no response of GET or POST /api/email/settings carries the stored
\* credentials: the body has the columns of the row without credentials,
\* and hasCredentials in its place.
C14_NoCredentialsInResponse ==
    (res.route \in {"GET /api/email/settings", "POST /api/email/settings"}
       /\ res.returned) =>
        /\ "credentials" \notin DOMAIN res.body
        /\ res.body.hasCredentials = TRUE
        /\ \E s \in RowsOf(res.body.userId) :
              \A f \in DOMAIN s \ {"credentials"} : res.body[f] = s[f]

\* The update branch of POST has answered with the settings of a row that
\* holds credentials.
C14_Witness ==
    /\ res.route = "POST /api/email/settings"
    /\ res.status = 200
    /\ res.returned
    /\ \E s \in RowsOf(res.body.userId) : s.credentials.encrypted # <<>>

\* C15: wherever a pass is about to classify and store a new message, for every
\* answer of the model the row is stored, with needsResponse true exactly when
\* the answer has needsResponse true and a confidence above 0.7; an answer with
\* confidence 0.7 and a failed call or parse store the row with
\* needsResponse=false.
C15_ClassificationRule ==
    \A r \in Requests, answer \in LLMAnswers :
        (/\ sync[r].pc = "insert"
         /\ Len(emails) < MaxEmails
         /\ ~IsStored(sync[r].fetched[sync[r].i].messageId)) =>
            /\ ENABLED SyncInsert(r, answer)
            /\ ~ENABLED MisclassifiedInsert(r, answer)

\* A pass has stored an email it classified as needing a response: the answer
\* was above the threshold.
C15_Witness ==
    \E r \in Requests :
        /\ sync[r].pc = "generate"
        /\ emails[sync[r].savedId].needsResponse

\* C18, as stated: a pass that has returned has no mail session open.
C18_SessionClosed ==
    \A r \in Requests : sync[r].pc = "done" => sync[r].imap \in {"none", "closed"}

\* C19, as stated: no record that fetchEmails returns and no row of the emails
\* table comes from a message without a Message-Id header, a From, a To or a
\* text.
C19_IncompleteDropped ==
    /\ \A k \in 1..Len(emails) : emails[k].messageId \in 1..NumMids
    /\ \A r \in Requests : \A k \in 1..Len(sync[r].fetched) :
          /\ sync[r].fetched[k].messageId \in 1..NumMids
          /\ sync[r].fetched[k].from # 0
          /\ sync[r].fetched[k].to # 0
          /\ sync[r].fetched[k].text # 0

\* C20, as stated: every status is draft, edited or sent, and a response with
\* status "sent" has its sentAt set.
C20_StatusEnum ==
    \A j \in 1..Len(emailResponses) :
        /\ emailResponses[j].status \in {"draft", "edited", "sent"}
        /\ emailResponses[j].status = "sent" => emailResponses[j].sentAt # NoDate


\* C21: a row of the emails table is added only by the insert step of a sync
\* pass; a stored row changes in responseGenerated only, from false to true,
\* in a step after which a response refers to it; and in every state an email
\* with responseGenerated=true has a response that refers to it.
C21_OnlyResponseGeneratedChanges ==
    /\ [](\A k \in 1..Len(emails) : emails[k].responseGenerated => ResponsesTo(k) # {})
    /\ [][/\ Len(emails') >= Len(emails)
          /\ Len(emails') > Len(emails) =>
                /\ Len(emails') = Len(emails) + 1
                /\ ~emails'[Len(emails')].responseGenerated
                /\ \E r \in Requests : sync[r].pc = "insert" /\ sync'[r] # sync[r]
          /\ \A k \in 1..Len(emails) :
                \/ emails'[k] = emails[k]
                \/ /\ ~emails[k].responseGenerated
                   /\ emails'[k] = [emails[k] EXCEPT !.responseGenerated = TRUE]
                   /\ \E j \in 1..Len(emailResponses') : emailResponses'[j].emailId = k]_vars

\* Two stored emails: one whose draft was generated, one without a response.
C21_Witness ==
    /\ Len(emails) = 2
    /\ \E k \in 1..2 : emails[k].responseGenerated /\ ResponsesTo(k) # {}
    /\ \E k \in 1..2 : ~emails[k].responseGenerated /\ ResponsesTo(k) = {}


\* the rows the pass r is known to have created: those it has counted and the
\* one whose draft call is due, or the count it returned
Created(r) ==
    IF InLoop(sync[r].pc)
    THEN sync[r].newEmailCount + (IF sync[r].pc = "generate" THEN 1 ELSE 0)
    ELSE sync[r].result.count

\* the pass r failed inside its loop
FailedInLoop(r) == sync[r].pc = "done" /\ sync[r].result.error = "duplicate key"

\* C22: a pass that returns with success returns the number of rows it
\* created, and a pass that fails returns an error description and count 0,
\* also when it had created rows: the rows of the table are those the
\* running and the succeeded passes count, and those of passes that failed in
\* their loop.
C22_CountIsRowsCreated ==
    /\ \A r \in Requests :
          (sync[r].pc = "done" /\ ~sync[r].result.success) =>
              (sync[r].result.count = 0 /\ sync[r].result.error # "")
    /\ \A r \in Requests :
          (sync[r].pc = "done" /\ sync[r].result.success) => sync[r].result.error = ""
    /\ Created(1) + Created(2) <= Len(emails)
    /\ (\A r \in Requests : ~FailedInLoop(r)) => Created(1) + Created(2) = Len(emails)

\* A pass created a row and then failed: it returned count 0, and the table
\* holds a row more than the other pass counts.
C22_Witness ==
    \E r, q \in Requests :
        /\ r # q
        /\ FailedInLoop(r)
        /\ sync[r].result.count = 0
        /\ sync[q].pc = "done" /\ sync[q].result.success
        /\ Len(emails) = sync[q].result.count + 1


\* the email k needs a response and has none: the state a pass leaves it in
\* when it stops between the insert of the email and that of the response
Orphan(k) ==
    /\ emails[k].needsResponse
    /\ ~emails[k].responseGenerated
    /\ ResponsesTo(k) = {}

\* the step is the draft call of a pass for the email k
DraftStepFor(k) ==
    \E r \in Requests :
        sync[r].pc = "generate" /\ sync[r].savedId = k /\ sync'[r] # sync[r]

\* What holds of the passes for C23: the insert of an email that needs a
\* response leaves it without one, a failed draft call leaves it so, and no
\* other step of a pass changes an email in that state.
C23_PassLeavesOrphan ==
    /\ \A r \in Requests :
          (sync[r].pc = "insert" /\ sync'[r].pc = "generate")
              => (emails'[sync'[r].savedId].needsResponse
                  /\ ~emails'[sync'[r].savedId].responseGenerated
                  /\ \A j \in 1..Len(emailResponses') :
                        emailResponses'[j].emailId # sync'[r].savedId)
    /\ \A k \in 1..Len(emails) :
          (Orphan(k) /\ DraftStepFor(k) /\ Len(emailResponses') = Len(emailResponses))
              => Orphan(k)'
    /\ \A k \in 1..Len(emails) :
          (Orphan(k) /\ sync' # sync /\ ~DraftStepFor(k)) => Orphan(k)'

\* C23, as stated: a generate-response request of the owner for an email left
\* without a response creates one and sets responseGenerated.
C23_RequestAlwaysRepairs ==
    [][/\ C23_PassLeavesOrphan
       /\ \A u \in Users, k \in 1..Len(emails), completion \in Completions :
             (PostGenerateResponse(u, k, completion) /\ Orphan(k) /\ emails[k].userId = u)
                 => (emails'[k].responseGenerated
                     /\ \E j \in 1..Len(emailResponses') : emailResponses'[j].emailId = k)]_vars

\* C23, amended: a pass that stops between the insert of an email and that of
\* its response leaves the email with needsResponse=true,
\* responseGenerated=false and no response; no later step of a pass changes
\* that; a generate-response request of the owner whose completion call
\* succeeds creates a draft for the email and sets responseGenerated=true,
\* and one whose completion call fails is answered 500 and changes nothing.
C23_RequestRepairsWhenGenerated ==
    [][/\ C23_PassLeavesOrphan
       /\ \A u \in Users, k \in 1..Len(emails), completion \in Completions :
             (PostGenerateResponse(u, k, completion) /\ Orphan(k) /\ emails[k].userId = u)
                 => IF completion.ok
                    THEN /\ emails'[k] = [emails[k] EXCEPT !.responseGenerated = TRUE]
                         /\ emailResponses' = Append(emailResponses,
                               [emailId |-> k, userId |-> u,
                                draftResponse |-> completion.draftResponse,
                                status |-> "draft", sentAt |-> NoDate])
                         /\ res'.status = 200
                    ELSE /\ Orphan(k)'
                         /\ res'.status = 500]_vars

\* A pass stored an email that needs a response and returned without a draft
\* for it; the one response the email has was created by the request.
C23_Witness ==
    /\ \A r \in Requests : sync[r].pc \in {"idle", "done"}
    /\ Len(emails) = 1
    /\ emails[1].needsResponse /\ emails[1].responseGenerated
    /\ Len(emailResponses) = 1
    /\ Len(aiCalls) = 1
    /\ res.route = "POST /api/email/:id/generate-response" /\ res.status = 200


\* a message with a From, a To and a text body
WellFormed(m) == m.from # 0 /\ m.to # 0 /\ m.text # 0

\* C24, as stated: the fetch of a pass returns a record for every matched
\* message that is well-formed, whenever the parser callbacks of a message
\* run.
C24_EveryWellFormedReturned ==
    [][\A r \in Requests :
          (sync[r].pc = "connect" /\ sync'[r].pc \in {"check", "update"}) =>
              LET box == mailbox[sync[r].userId]
                  matched == searchResults(box, lastSyncDate(sync[r].lastSynced))
              IN Len(sync'[r].fetched)
                    = Cardinality({ i \in matched : WellFormed(box[i]) })]_vars


\* C25, as stated: no well-formed unseen message is lost by the watermark: a
\* message with a Message-Id that is older than the lastSynced of its user,
\* and so matched by no later search, is stored.
C25_NotLostByWatermark ==
    \A u \in Users : \A i \in 1..Len(mailbox[u]) :
        (/\ WellFormed(mailbox[u][i])
         /\ mailbox[u][i].messageId # 0
         /\ lastSyncedOf(emailSettings, u) # NoDate
         /\ mailbox[u][i].date < lastSyncedOf(emailSettings, u))
            => IsStored(mailbox[u][i].messageId)


\* C26, as stated: passes that see the same mailbox store each message once,
\* the messages without a Message-Id header included: a user has no more
\* rows than messages.
C26_ResyncIdempotent ==
    \A u \in Users :
        Cardinality({ k \in 1..Len(emails) : emails[k].userId = u }) <= Len(mailbox[u])


\* C27, as stated: a response whose status is "sent" is not transmitted
\* again: a send request for it transmits nothing and leaves the row as it
\* is.
C27_SentOnce ==
    [][\A j \in 1..Len(emailResponses) :
          emailResponses[j].status = "sent" =>
              /\ emailResponses'[j] = emailResponses[j]
              /\ Len(outbox') > Len(outbox) => outbox'[Len(outbox')].responseId # j]_vars


\* C28, as stated: whether a pass stores a fetched message for its user does
\* not depend on the rows of other users: a record whose messageId no row of
\* the user has is not skipped by the existence check.
C28_OtherUsersRowsIgnored ==
    [][\A r \in Requests :
          (/\ sync[r].pc = "check"
           /\ sync'[r] # sync[r]
           /\ \A k \in 1..Len(emails) :
                 emails[k].messageId = sync[r].fetched[sync[r].i].messageId
                     => emails[k].userId # sync[r].userId)
              => sync'[r].pc = "insert"]_vars


\* C29, as stated: no request changes the owner of a stored context or task,
\* whatever the body of a PUT /api/contexts/:id or PUT /api/tasks/:id.
C29_OwnerUnchanged ==
    [][/\ \A k \in 1..Len(contexts) : contexts'[k].userId = contexts[k].userId
       /\ \A k \in 1..Len(tasks) : tasks'[k].userId = tasks[k].userId]_vars


\* sendEmail, for every caller, response and edited body, where the transport
\* rejects the message
C30_SendEmailFailure ==
    \A u \in Users, id \in 1..Len(emailResponses), edited \in EditedBodies :
        LET sent == sendEmail(u, id, edited, FALSE)
        IN /\ ~sent.success
           /\ sent.error # ""
           /\ sent.outbox = outbox
           /\ sent.emailResponses = emailResponses

\* C30: when the transmission fails, sendEmail returns success=false with an
\* error, nothing is transmitted (there is no second attempt) and the
\* response keeps its status, sentAt and draftResponse; and a step of the
\* send route sets a status to "sent" only together with the one transmission
\* of that response and the answer 200.
C30_SentOnlyAfterTransmission ==
    /\ []C30_SendEmailFailure
    /\ [][/\ (/\ Len(sendResult') > Len(sendResult)
              /\ sendResult'[Len(sendResult')].status = 400) =>
                 (outbox' = outbox /\ emailResponses' = emailResponses)
          /\ Len(outbox') <= Len(outbox) + 1
          /\ \A j \in 1..Len(emailResponses) :
                (emailResponses[j].status # "sent" /\ emailResponses'[j].status = "sent") =>
                    /\ Len(outbox') = Len(outbox) + 1
                    /\ outbox'[Len(outbox')].responseId = j
                    /\ outbox'[Len(outbox')].text = emailResponses'[j].draftResponse
                    /\ sendResult'[Len(sendResult')].status = 200]_vars

\* The transport rejected the message of a send request: the answer is 400
\* with the error, nothing was transmitted and the response is still a draft.
C30_Witness ==
    /\ Len(sendResult) = 1
    /\ sendResult[1].status = 400
    /\ sendResult[1].message = "sendMail failed"
    /\ outbox = <<>>
    /\ emailResponses # <<>>
    /\ \A j \in 1..Len(emailResponses) :
          emailResponses[j].status = "draft" /\ emailResponses[j].sentAt = NoDate

====
